---- MODULE Spec2Model ----
(***************************************************************************)
(* Structural selection over a forest of syntax trees (helix-core):        *)
(*   syntax/tree_cursor.rs  TreeCursor, the cross-layer cursor             *)
(*   object.rs              expand_selection, shrink_selection,            *)
(*                          select_next_sibling, select_prev_sibling       *)
(* and the file explorer of the terminal front end (helix-term):           *)
(*   ui/explorer.rs         Explorer: root changes and their history,      *)
(*                          reveal_file, new_file, new_folder              *)
(*                                                                         *)
(* A layer is a record [depth, parent, range, nodes]: parent is the id of  *)
(* the enclosing layer (0 = None), range the byte coverage <<start, end>>, *)
(* nodes the layer's tree.  A tree is a sequence of node records           *)
(* [parent, start, end]; node 1 is the root node (parent 0), the children  *)
(* of a node are the nodes naming it as parent, ordered by index.  Layer   *)
(* ids are the indices of the layer sequence, in the iteration order of    *)
(* the slot map.  A text is the sequence of the byte widths of its chars.  *)
(***************************************************************************)
EXTENDS Integers, Sequences, FiniteSets, TLC

\* Longest selection (number of ranges) given to a selection operation.
MaxRanges == 2

\* How far an offset handed in by a caller may lie beyond the end of the text.
MaxOver == 1

\* Most layers of a store.
MaxLayers == 3

N(p, s, e) == [parent |-> p, start |-> s, end |-> e]
L(d, p, r, ns) == [depth |-> d, parent |-> p, range |-> r, nodes |-> ns]

\* One layer: root with two children, the first with two children of its own.
PlainForest ==
  [text   |-> <<1, 1, 1, 1>>,
   layers |-> << L(0, 0, <<0, 4>>,
                   << N(0, 0, 4), N(1, 0, 2), N(1, 2, 4), N(2, 0, 1), N(2, 1, 2) >>) >>]

\* One layer: a sole child wrapping its parent's exact extent ([0,3) twice),
\* whose own only child has no sibling, while the outer [0,3) has one.
\* The middle char is two bytes wide.
ChainForest ==
  [text   |-> <<1, 2, 1>>,
   layers |-> << L(0, 0, <<0, 4>>,
                   << N(0, 0, 4), N(1, 0, 3), N(2, 0, 3), N(3, 0, 1), N(1, 3, 4) >>) >>]

\* One layer whose root node starts after leading white space.
PaddedForest ==
  [text   |-> <<1, 1, 1>>,
   layers |-> << L(0, 0, <<0, 3>>,
                   << N(0, 1, 3), N(1, 1, 2), N(1, 2, 3) >>) >>]

\* A layer injected at node [1,4) of the root layer; the injected tree's
\* root node spans the whole injection.
InjectedForest ==
  [text   |-> <<1, 1, 1, 1>>,
   layers |-> << L(0, 0, <<0, 4>>,
                   << N(0, 0, 4), N(1, 0, 1), N(1, 1, 4) >>),
                 L(1, 1, <<1, 4>>,
                   << N(0, 1, 4), N(1, 1, 2), N(1, 2, 4) >>) >>]

\* A layer injected at node [1,4) whose content starts with white space:
\* the injected tree's root node is [2,4).
PaddedInjectionForest ==
  [text   |-> <<1, 1, 1, 1>>,
   layers |-> << L(0, 0, <<0, 4>>,
                   << N(0, 0, 4), N(1, 0, 1), N(1, 1, 4) >>),
                 L(1, 1, <<1, 4>>,
                   << N(0, 2, 4), N(1, 2, 3), N(1, 3, 4) >>) >>]

\* Two nested injections over the same bytes [1,3): layer 3 is injected at
\* the root node of layer 2.
StackedForest ==
  [text   |-> <<1, 1, 1>>,
   layers |-> << L(0, 0, <<0, 3>>,
                   << N(0, 0, 3), N(1, 0, 1), N(1, 1, 3) >>),
                 L(1, 1, <<1, 3>>,
                   << N(0, 1, 3), N(1, 1, 3) >>),
                 L(2, 2, <<1, 3>>,
                   << N(0, 1, 3), N(1, 1, 2), N(1, 2, 3) >>) >>]

\* Two nested injections over different bytes: layer 2 at [1,4) of the
\* root layer, layer 3 at [2,4) of layer 2.
NestedForest ==
  [text   |-> <<1, 1, 1, 1>>,
   layers |-> << L(0, 0, <<0, 4>>,
                   << N(0, 0, 4), N(1, 0, 1), N(1, 1, 4) >>),
                 L(1, 1, <<1, 4>>,
                   << N(0, 1, 4), N(1, 1, 2), N(1, 2, 4) >>),
                 L(2, 2, <<2, 4>>,
                   << N(0, 2, 4), N(1, 2, 3), N(1, 3, 4) >>) >>]

\* One layer with a zero-width (MISSING) node between two siblings.
MissingForest ==
  [text   |-> <<1, 1, 1>>,
   layers |-> << L(0, 0, <<0, 3>>,
                   << N(0, 0, 3), N(1, 0, 2), N(1, 2, 2), N(1, 2, 3) >>) >>]

\* One layer over a text of multi-byte chars (byte offsets 0, 2, 3, 6).
WideForest ==
  [text   |-> <<2, 1, 3>>,
   layers |-> << L(0, 0, <<0, 6>>,
                   << N(0, 0, 6), N(1, 0, 2), N(1, 2, 6), N(3, 2, 3), N(3, 3, 6) >>) >>]

\* Two sibling injections of the same depth.
SiblingInjectionsForest ==
  [text   |-> <<1, 1, 1>>,
   layers |-> << L(0, 0, <<0, 3>>,
                   << N(0, 0, 3), N(1, 0, 1), N(1, 1, 3) >>),
                 L(1, 1, <<0, 1>>,
                   << N(0, 0, 1) >>),
                 L(1, 1, <<1, 3>>,
                   << N(0, 1, 3), N(1, 1, 2), N(1, 2, 3) >>) >>]

\* One layer: a root with a row of three children and a zero-width (MISSING)
\* node closing the row.
SiblingRowForest ==
  [text   |-> <<1, 1, 1>>,
   layers |-> << L(0, 0, <<0, 3>>,
                   << N(0, 0, 3), N(1, 0, 1), N(1, 1, 2), N(1, 2, 3), N(1, 3, 3) >>) >>]

\* A layer injected at node [0,3), which keeps its own children [0,1) and
\* [1,3) in the root layer; the injected content starts with white space, so
\* the injected tree's root node is [1,3).
HostChildrenForest ==
  [text   |-> <<1, 1, 1>>,
   layers |-> << L(0, 0, <<0, 3>>,
                   << N(0, 0, 3), N(1, 0, 3), N(2, 0, 1), N(2, 1, 3) >>),
                 L(1, 1, <<0, 3>>,
                   << N(0, 1, 3), N(1, 1, 2), N(1, 2, 3) >>) >>]

\* The degenerate empty document.
EmptyForest ==
  [text   |-> << >>,
   layers |-> << L(0, 0, <<0, 0>>, << N(0, 0, 0) >>) >>]

Forests ==
  { PlainForest, ChainForest, PaddedForest, InjectedForest,
    PaddedInjectionForest, StackedForest, NestedForest, MissingForest,
    WideForest, SiblingInjectionsForest, SiblingRowForest,
    HostChildrenForest, EmptyForest }

VARIABLES
  layers,            \* TreeCursor.layers: the layer store of the revision
  text,              \* the text buffer, as the byte widths of its chars
  injection_ranges,  \* TreeCursor.injection_ranges: byte range -> layer id
  current,           \* TreeCursor.current
  cursor,            \* TreeCursor.cursor: node of layers[current]'s tree
  panicked,          \* a cursor operation hit an expect / index failure
  call,              \* the cursor operation that ran last
  ret,               \* its return value
  before,            \* the cursor position it started from
  args,              \* the byte range it was given (reset_to_byte_range)
  selection,         \* the selection: a sequence of [anchor, head] ranges
  input,             \* the selection the last selection operation was given
  op,                \* the selection operation that ran last
  fs,                \* the file system: [dirs, files], two sets of paths
  tree,              \* Explorer.tree: the displayed tree [root, selected, opened]
  history,           \* Explorer.history: the trees of the roots left behind
  current_root,      \* Explorer.state.current_root
  edits,             \* operations run since the first reveal, creation or move
  xop,               \* the explorer operation that ran last
  xarg,              \* the path or name it was given
  xok,               \* whether it returned Ok
  state_focus,       \* Explorer.state.focus
  state_open,        \* Explorer.state.open
  area_width,        \* Explorer.state.area_width
  column_width,      \* Explorer.column_width
  show_help,         \* Explorer.show_help
  show_preview,      \* Explorer.show_preview
  prompt,            \* Explorer.prompt: [action, line], action "None" for None
  prompting,         \* the tree view is in its own prompt (TreeView::prompting)
  event,             \* the event handle_event was given last
  did,               \* the method that event, or the caller, reached last
  result,            \* what handle_event returned
  original,          \* CopilotCompletionPicker.original
  transactions,      \* CopilotCompletionPicker.transactions
  cur,               \* CopilotCompletionPicker.cur, counted from 1
  doc,               \* the text of the editor's current document
  callback,          \* the callback handle_event returned, not yet run
  in_compositor,     \* the picker is a layer of the compositor
  key,               \* the event the picker was given last
  ran                \* the callback run since that event

storeVars    == <<layers, text, injection_ranges>>
cursorVars   == <<current, cursor, panicked, call, ret, before, args>>
selVars      == <<selection, input, op>>
explorerVars == <<fs, tree, history, current_root, edits, xop, xarg, xok>>
panelVars    == <<state_focus, state_open, area_width, column_width, show_help,
                  show_preview, prompt, prompting, event, did, result>>
pickerVars   == <<original, transactions, cur, doc, callback, in_compositor,
                  key, ran>>
vars         == <<layers, text, injection_ranges, current, cursor, panicked,
                  call, ret, before, args, selection, input, op,
                  fs, tree, history, current_root, edits, xop, xarg, xok,
                  state_focus, state_open, area_width, column_width, show_help,
                  show_preview, prompt, prompting, event, did, result,
                  original, transactions, cur, doc, callback, in_compositor,
                  key, ran>>

-----------------------------------------------------------------------------
(* The text buffer (ropey): char offset <-> byte offset.                   *)

RECURSIVE SumWidths(_, _)
SumWidths(t, n) == IF n = 0 THEN 0 ELSE SumWidths(t, n - 1) + t[n]

len_chars == Len(text)
len_bytes == SumWidths(text, Len(text))

\* char_to_byte taking an offset beyond the text for the end of the text.
char_to_byte_clamped(c) == SumWidths(text, IF c > len_chars THEN len_chars ELSE c)

\* Byte offset of the start of char c (c = len_chars gives len_bytes); the
\* call panics for c > len_chars, shown as a negative result.
char_to_byte(c) == IF c > len_chars THEN -1 ELSE SumWidths(text, c)

\* Index of the char that byte b belongs to (b = len_bytes gives len_chars).
byte_to_char(b) == Cardinality({c \in 1..len_chars : char_to_byte(c) <= b})

-----------------------------------------------------------------------------
(* Range: anchor and head char offsets.                                    *)

Min(a, b) == IF a < b THEN a ELSE b
Max(a, b) == IF a < b THEN b ELSE a

RangeNew(a, h) == [anchor |-> a, head |-> h]
RangeFrom(r) == Min(r.anchor, r.head)
RangeTo(r)   == Max(r.anchor, r.head)
Direction(r) == IF r.head < r.anchor THEN "Backward" ELSE "Forward"
Flip(r)      == [anchor |-> r.head, head |-> r.anchor]
WithDirection(r, d) == IF Direction(r) = d THEN r ELSE Flip(r)

-----------------------------------------------------------------------------
(* tree_sitter::Node                                                       *)

LayerIds == 1..Len(layers)
Tree(l) == layers[l].nodes
root_node(l) == 1

NodeParent(l, n) == Tree(l)[n].parent
start_byte(l, n) == Tree(l)[n].start
end_byte(l, n) == Tree(l)[n].end
byte_range(l, n) == <<Tree(l)[n].start, Tree(l)[n].end>>

ChildSet(l, n) == {k \in 1..Len(Tree(l)) : Tree(l)[k].parent = n}

\* Node::child(0); 0 = None
child0(l, n) ==
  IF ChildSet(l, n) = {} THEN 0
  ELSE CHOOSE k \in ChildSet(l, n) : \A j \in ChildSet(l, n) : k <= j

\* Node::next_sibling(); 0 = None
next_sibling(l, n) ==
  LET later == {k \in ChildSet(l, NodeParent(l, n)) : k > n}
  IN IF NodeParent(l, n) = 0 \/ later = {} THEN 0
     ELSE CHOOSE k \in later : \A j \in later : k <= j

\* Node::prev_sibling(); 0 = None
prev_sibling(l, n) ==
  LET earlier == {k \in ChildSet(l, NodeParent(l, n)) : k < n}
  IN IF NodeParent(l, n) = 0 \/ earlier = {} THEN 0
     ELSE CHOOSE k \in earlier : \A j \in earlier : k >= j

\* Node::descendant_for_byte_range(start, end): ts_node__descendant_for_byte_range
\* descends, from n, into the first child whose end reaches the end of the
\* range and exceeds its start, as long as that child starts at or before
\* the range; it returns the last node it descended into, n itself when it
\* never descended.  (The Option the binding returns is None only for a null
\* node; unwrap_or(root) gives the same node.)
RECURSIVE descendant_for_byte_range(_, _, _, _)
descendant_for_byte_range(l, n, s, e) ==
  LET reach == {k \in ChildSet(l, n) : end_byte(l, k) >= e /\ end_byte(l, k) > s}
      first == CHOOSE k \in reach : \A j \in reach : k <= j
  IN IF reach = {} THEN n
     ELSE IF s < start_byte(l, first) THEN n
     ELSE descendant_for_byte_range(l, first, s, e)

-----------------------------------------------------------------------------
(* Syntax: the layer store and the injection index handed to the cursor.   *)

root == 1

\* LanguageLayer::contains_byte_range: the layer's coverage contains [s, e)
contains_byte_range(l, s, e) == layers[l].range[1] <= s /\ e <= layers[l].range[2]

\* Syntax::walk builds the injection index: the coverage of every non-root
\* layer is a key, its value a layer with that coverage.  Which layer a key
\* shared by several layers keeps depends on the insertion order; every
\* outcome is a possible index.
InjectionIndexes(ls) ==
  LET nonroot == {l \in 1..Len(ls) : ls[l].parent # 0}
      keys == {ls[l].range : l \in nonroot}
  IN {f \in [keys -> nonroot] : \A k \in keys : ls[f[k]].range = k}

\* HashMap::get; 0 = None
injection_get(range) ==
  IF range \in DOMAIN injection_ranges THEN injection_ranges[range] ELSE 0

-----------------------------------------------------------------------------
(* TreeCursor.  A cursor value is [current, cursor, panicked]; an          *)
(* operation returns [c |-> the cursor after it, ok |-> its return value]. *)

TreeCursorNew == [current |-> root, cursor |-> root_node(root), panicked |-> FALSE]

node_byte_range(c) == byte_range(c.current, c.cursor)

\* goto_parent without the root-layer check before the ascent.
goto_parent_unchecked(c) ==
  IF NodeParent(c.current, c.cursor) # 0
  THEN [c |-> [c EXCEPT !.cursor = NodeParent(c.current, c.cursor)], ok |-> TRUE]
  ELSE LET range == node_byte_range(c)
           parent_id == layers[c.current].parent
       IN IF parent_id \notin LayerIds
          THEN [c |-> [c EXCEPT !.panicked = TRUE], ok |-> FALSE]
          ELSE [c |-> [c EXCEPT !.current = parent_id,
                                !.cursor = descendant_for_byte_range(
                                    parent_id, root_node(parent_id), range[1], range[2])],
                ok |-> TRUE]

\* goto_parent reporting success on the root layer's root node.
goto_parent_always_true(c) ==
  IF NodeParent(c.current, c.cursor) # 0
  THEN [c |-> [c EXCEPT !.cursor = NodeParent(c.current, c.cursor)], ok |-> TRUE]
  ELSE IF c.current = root
  THEN [c |-> c, ok |-> TRUE]
  ELSE LET range == node_byte_range(c)
           parent_id == layers[c.current].parent
       IN [c |-> [c EXCEPT !.current = parent_id,
                           !.cursor = descendant_for_byte_range(
                               parent_id, root_node(parent_id), range[1], range[2])],
           ok |-> TRUE]

\* goto_parent crossing into the parent layer at its root node.
goto_parent_to_root(c) ==
  IF NodeParent(c.current, c.cursor) # 0
  THEN [c |-> [c EXCEPT !.cursor = NodeParent(c.current, c.cursor)], ok |-> TRUE]
  ELSE IF c.current = root
  THEN [c |-> c, ok |-> FALSE]
  ELSE IF layers[c.current].parent = 0
  THEN [c |-> [c EXCEPT !.panicked = TRUE], ok |-> FALSE]
  ELSE [c |-> [c EXCEPT !.current = layers[c.current].parent,
                        !.cursor = root_node(layers[c.current].parent)],
        ok |-> TRUE]

\* goto_parent that never leaves the current layer.
goto_parent_no_ascent(c) ==
  IF NodeParent(c.current, c.cursor) # 0
  THEN [c |-> [c EXCEPT !.cursor = NodeParent(c.current, c.cursor)], ok |-> TRUE]
  ELSE [c |-> c, ok |-> FALSE]

goto_parent(c) ==
  IF NodeParent(c.current, c.cursor) # 0
  THEN [c |-> [c EXCEPT !.cursor = NodeParent(c.current, c.cursor)], ok |-> TRUE]
  ELSE IF c.current = root
  THEN [c |-> c, ok |-> FALSE]
  ELSE LET range == node_byte_range(c)
           parent_id == layers[c.current].parent
       IN IF parent_id \notin LayerIds
          THEN [c |-> [c EXCEPT !.panicked = TRUE], ok |-> FALSE]
          ELSE [c |-> [c EXCEPT !.current = parent_id,
                                !.cursor = descendant_for_byte_range(
                                    parent_id, root_node(parent_id), range[1], range[2])],
                ok |-> TRUE]

\* goto_first_child preferring the node's first ordinary child to an
\* injection match.
goto_first_child_children_first(c) ==
  LET range == node_byte_range(c)
      layer_id == injection_get(range)
  IN IF child0(c.current, c.cursor) # 0
     THEN [c |-> [c EXCEPT !.cursor = child0(c.current, c.cursor)], ok |-> TRUE]
     ELSE IF layer_id # 0 /\ layer_id \in LayerIds
     THEN [c |-> [c EXCEPT !.current = layer_id, !.cursor = root_node(layer_id)],
           ok |-> TRUE]
     ELSE [c |-> c, ok |-> FALSE]

\* goto_first_child reporting failure after moving to the first child.
goto_first_child_false(c) ==
  LET range == node_byte_range(c)
      layer_id == injection_get(range)
  IN IF layer_id # 0 /\ layer_id \in LayerIds
     THEN [c |-> [c EXCEPT !.current = layer_id, !.cursor = root_node(layer_id)],
           ok |-> TRUE]
     ELSE IF child0(c.current, c.cursor) # 0
     THEN [c |-> [c EXCEPT !.cursor = child0(c.current, c.cursor)], ok |-> FALSE]
     ELSE [c |-> c, ok |-> FALSE]

\* goto_first_child taking the injected root node without making its layer
\* current.
goto_first_child_keep_layer(c) ==
  LET range == node_byte_range(c)
      layer_id == injection_get(range)
  IN IF layer_id # 0 /\ layer_id \in LayerIds
     THEN [c |-> [c EXCEPT !.cursor = root_node(layer_id)], ok |-> TRUE]
     ELSE IF child0(c.current, c.cursor) # 0
     THEN [c |-> [c EXCEPT !.cursor = child0(c.current, c.cursor)], ok |-> TRUE]
     ELSE [c |-> c, ok |-> FALSE]

goto_first_child(c) ==
  LET range == node_byte_range(c)
      layer_id == injection_get(range)
  IN IF layer_id # 0
     THEN IF layer_id \notin LayerIds
          THEN [c |-> [c EXCEPT !.panicked = TRUE], ok |-> FALSE]
          ELSE [c |-> [c EXCEPT !.current = layer_id, !.cursor = root_node(layer_id)],
                ok |-> TRUE]
     ELSE IF child0(c.current, c.cursor) # 0
     THEN [c |-> [c EXCEPT !.cursor = child0(c.current, c.cursor)], ok |-> TRUE]
     ELSE [c |-> c, ok |-> FALSE]

\* goto_next_sibling entering the layer injected at the sibling it reaches.
goto_next_sibling_enter(c) ==
  LET n == next_sibling(c.current, c.cursor)
      layer_id == IF n = 0 THEN 0 ELSE injection_get(byte_range(c.current, n))
  IN IF n = 0 THEN [c |-> c, ok |-> FALSE]
     ELSE IF layer_id # 0 /\ layer_id \in LayerIds
     THEN [c |-> [c EXCEPT !.current = layer_id, !.cursor = root_node(layer_id)],
           ok |-> TRUE]
     ELSE [c |-> [c EXCEPT !.cursor = n], ok |-> TRUE]

goto_next_sibling(c) ==
  IF next_sibling(c.current, c.cursor) # 0
  THEN [c |-> [c EXCEPT !.cursor = next_sibling(c.current, c.cursor)], ok |-> TRUE]
  ELSE [c |-> c, ok |-> FALSE]

\* goto_prev_sibling moving to the first sibling of the row.
goto_prev_sibling_first(c) ==
  IF prev_sibling(c.current, c.cursor) # 0
  THEN [c |-> [c EXCEPT !.cursor = child0(c.current, NodeParent(c.current, c.cursor))],
        ok |-> TRUE]
  ELSE [c |-> c, ok |-> FALSE]

goto_prev_sibling(c) ==
  IF prev_sibling(c.current, c.cursor) # 0
  THEN [c |-> [c EXCEPT !.cursor = prev_sibling(c.current, c.cursor)], ok |-> TRUE]
  ELSE [c |-> c, ok |-> FALSE]

\* The scan of reset_to_byte_range over layers i.. with the container so far.
RECURSIVE ContainerFrom(_, _, _, _)
ContainerFrom(i, container_id, s, e) ==
  IF i > Len(layers) THEN container_id
  ELSE ContainerFrom(i + 1,
         IF layers[i].depth > layers[container_id].depth /\ contains_byte_range(i, s, e)
         THEN i ELSE container_id,
         s, e)

\* reset_to_byte_range scanning from the layer the cursor was left in.
reset_to_byte_range_stale(c, s, e) ==
  LET container_id == ContainerFrom(1, c.current, s, e)
  IN [c EXCEPT !.current = container_id,
               !.cursor = descendant_for_byte_range(
                   container_id, root_node(container_id), s, e)]

\* reset_to_byte_range taking the first layer whose coverage contains the
\* range instead of the deepest one.
reset_to_byte_range_first_layer(c, s, e) ==
  LET covering == {l \in LayerIds \ {root} : contains_byte_range(l, s, e)}
      container_id == IF covering = {} THEN root
                      ELSE CHOOSE l \in covering : \A k \in covering : l <= k
  IN [c EXCEPT !.current = container_id,
               !.cursor = descendant_for_byte_range(
                   container_id, root_node(container_id), s, e)]

\* reset_to_byte_range leaving the cursor alone when no embedded layer's
\* coverage contains the range.
reset_to_byte_range_keep(c, s, e) ==
  LET container_id == ContainerFrom(1, root, s, e)
  IN IF container_id = root /\ c.current # root THEN c
     ELSE [c EXCEPT !.current = container_id,
                    !.cursor = descendant_for_byte_range(
                        container_id, root_node(container_id), s, e)]

\* reset_to_byte_range descending from the parent of the node the cursor was
\* left on when the layer does not change.
reset_to_byte_range_from_parent(c, s, e) ==
  LET container_id == ContainerFrom(1, root, s, e)
      from == IF container_id # c.current THEN root_node(container_id)
              ELSE IF NodeParent(c.current, c.cursor) # 0
              THEN NodeParent(c.current, c.cursor)
              ELSE c.cursor
  IN [c EXCEPT !.current = container_id,
               !.cursor = descendant_for_byte_range(container_id, from, s, e)]

reset_to_byte_range(c, s, e) ==
  LET container_id == ContainerFrom(1, root, s, e)
  IN [c EXCEPT !.current = container_id,
               !.cursor = descendant_for_byte_range(
                   container_id, root_node(container_id), s, e)]

-----------------------------------------------------------------------------
(* object.rs: the selection operations.                                    *)

\* The range built from the final node without the input's direction.
NodeRangeForward(c, range) ==
  LET from == byte_to_char(start_byte(c.current, c.cursor))
      to == byte_to_char(end_byte(c.current, c.cursor))
  IN RangeNew(from, to)

\* The range built from the final node: Range::new(to, from) with the
\* direction of the input range.
NodeRange(c, range) ==
  LET from == byte_to_char(start_byte(c.current, c.cursor))
      to == byte_to_char(end_byte(c.current, c.cursor))
  IN WithDirection(RangeNew(to, from), Direction(range))

\* The loop of expand_selection cut to a single ascent.
ExpandLoopOnce(c, tracked) ==
  IF node_byte_range(c) # tracked THEN c ELSE goto_parent(c).c

\* The loop of expand_selection, entered with the tracked byte_range.
RECURSIVE ExpandLoop(_, _)
ExpandLoop(c, tracked) ==
  IF node_byte_range(c) # tracked THEN c
  ELSE LET r == goto_parent(c)
       IN IF ~r.ok THEN r.c ELSE ExpandLoop(r.c, node_byte_range(c))

\* The closure of expand_selection on one range, run on cursor c.
ExpandRange(c, range) ==
  LET from == char_to_byte(RangeFrom(range))
      to == char_to_byte(RangeTo(range))
  IN IF from < 0 \/ to < 0 THEN [c EXCEPT !.panicked = TRUE]
     ELSE ExpandLoop(reset_to_byte_range(c, from, to), <<from, to>>)

\* The motion closures of shrink_selection, select_next_sibling and
\* select_prev_sibling.
ShrinkMotion(c) == goto_first_child(c).c

\* The sibling fallback retried at every ancestor instead of the parent only.
RECURSIVE NextSiblingMotionClimb(_)
NextSiblingMotionClimb(c) ==
  LET r1 == goto_next_sibling(c)
      r2 == goto_parent(r1.c)
  IN IF r1.ok THEN r1.c
     ELSE IF r2.ok THEN NextSiblingMotionClimb(r2.c)
     ELSE r2.c

NextSiblingMotion(c) ==
  LET r1 == goto_next_sibling(c)
      r2 == goto_parent(r1.c)
  IN IF r1.ok THEN r1.c
     ELSE IF r2.ok THEN goto_next_sibling(r2.c).c
     ELSE r2.c

PrevSiblingMotion(c) ==
  LET r1 == goto_prev_sibling(c)
      r2 == goto_parent(r1.c)
  IN IF r1.ok THEN r1.c
     ELSE IF r2.ok THEN goto_prev_sibling(r2.c).c
     ELSE r2.c

Motion(m, c) ==
  CASE m = "shrink_selection" -> ShrinkMotion(c)
    [] m = "select_next_sibling" -> NextSiblingMotion(c)
    [] m = "select_prev_sibling" -> PrevSiblingMotion(c)

\* The closure of select_node_impl on one range, run on cursor c.
MotionRange(m, c, range) ==
  LET from == char_to_byte(RangeFrom(range))
      to == char_to_byte(RangeTo(range))
  IN IF from < 0 \/ to < 0 THEN [c EXCEPT !.panicked = TRUE]
     ELSE Motion(m, reset_to_byte_range(c, from, to))

\* The cursor after the closure of operation m has run on range i of sel;
\* the one cursor made by syntax.walk() serves the ranges in order.
RECURSIVE CursorAfter(_, _, _)
CursorAfter(m, sel, i) ==
  LET c == IF i = 1 THEN TreeCursorNew ELSE CursorAfter(m, sel, i - 1)
  IN IF c.panicked THEN c
     ELSE IF m = "expand_selection" THEN ExpandRange(c, sel[i])
     ELSE MotionRange(m, c, sel[i])

\* Selection::transform: every range replaced by the closure's result.
Transform(m, sel) ==
  [i \in 1..Len(sel) |-> NodeRange(CursorAfter(m, sel, i), sel[i])]

\* expand_selection merging two leading ranges that became equal.
expand_selection_merged(sel) ==
  LET out == Transform("expand_selection", sel)
  IN IF Len(out) >= 2 /\ out[1] = out[2] THEN Tail(out) ELSE out

expand_selection(sel) == Transform("expand_selection", sel)

select_node_impl(sel, m) == Transform(m, sel)

shrink_selection(sel) == select_node_impl(sel, "shrink_selection")

select_next_sibling(sel) == select_node_impl(sel, "select_next_sibling")

select_prev_sibling(sel) == select_node_impl(sel, "select_prev_sibling")

\* A selection operation panics when a cursor operation does.
Panics(m, sel) == \E i \in 1..Len(sel) : CursorAfter(m, sel, i).panicked

-----------------------------------------------------------------------------
(* ui/explorer.rs: the file explorer.                                      *)
(*                                                                         *)
(* A path is the sequence of its components below the top directory << >>, *)
(* the one path without a parent.  The file system is a record             *)
(* [dirs, files] of two sets of paths, the top directory among dirs.  A    *)
(* tree view is a record [root, selected, opened, items]: the path it was  *)
(* built from, the path of the item under the cursor, the opened folders,  *)
(* the paths of the items it has loaded.                                   *)

\* Explorer::push_history: the capacity of the history.
MAX_HISTORY_SIZE == 20

\* Most operations of the explorer from its first reveal, creation or cursor
\* move on.
MaxEdits == 3

\* Path::parent of a path other than the top directory.
Parent(p) == SubSeq(p, 1, Len(p) - 1)

\* Path::strip_prefix succeeds: base is a leading run of p's components.
starts_with(p, base) == Len(base) <= Len(p) /\ SubSeq(p, 1, Len(base)) = base

strip_prefix(p, base) == SubSeq(p, Len(base) + 1, Len(p))

Entries(f) == f.dirs \cup f.files

\* The directory entries read_dir yields for directory d.
Children(f, d) == {p \in Entries(f) : p # << >> /\ Parent(p) = d}

\* helix_core::path::get_normalized_path: "." components are dropped, ".."
\* pops the last component (and does nothing at the top directory).
RECURSIVE Normalized(_, _)
Normalized(acc, rest) ==
  IF rest = << >> THEN acc
  ELSE LET c == Head(rest)
       IN  Normalized(IF c = "." THEN acc
                      ELSE IF c = ".." THEN (IF acc = << >> THEN acc ELSE Parent(acc))
                      ELSE Append(acc, c),
                      Tail(rest))

get_normalized_path(p) == Normalized(<< >>, p)

\* TreeView::build_tree over FileInfo::root(root): the root is opened and its
\* children are loaded, the cursor is on the root.
build_tree(f, root_path) ==
  [root |-> root_path, selected |-> root_path, opened |-> {root_path},
   items |-> {root_path} \cup Children(f, root_path)]

\* Explorer::new_tree_view(root) is Ok exactly when root can be read as a
\* directory (FileInfo::get_children's read_dir).
new_tree_view_ok(f, root_path) == root_path \in f.dirs

new_tree_view(f, root_path) == build_tree(f, root_path)

\* The items a tree view shows: loaded items below opened folders only.
Visible(t) ==
  {p \in t.items :
     \A k \in Len(t.root)..(Len(p) - 1) : SubSeq(p, 1, k) \in t.opened}

\* TreeView::reveal_item(segments): walks from the root along the segments,
\* reloading and opening every folder on the way (the item itself when it
\* is a folder), and puts the cursor on the item; an error, and no change,
\* when a segment names no entry.
reveal_item(f, t, segments) ==
  LET target == t.root \o segments
      chain  == {SubSeq(target, 1, k) : k \in Len(t.root)..Len(target)}
      folders == chain \cap f.dirs
  IN  IF target \in Entries(f)
      THEN [ok |-> TRUE,
            tree |-> [t EXCEPT !.selected = target,
                               !.opened = @ \cup folders,
                               !.items = @ \cup chain
                                           \cup UNION {Children(f, d) : d \in folders}]]
      ELSE [ok |-> FALSE, tree |-> t]

push_history_unbounded(h, t) == Append(h, t)

\* Explorer::push_history: push, then truncate to the first
\* MAX_HISTORY_SIZE elements.
push_history(h, t) ==
  LET pushed == Append(h, t)
  IN  IF Len(pushed) > MAX_HISTORY_SIZE
      THEN SubSeq(pushed, 1, MAX_HISTORY_SIZE)
      ELSE pushed

\* Explorer::change_root
change_root(x, root_path) ==
  IF x.current_root = root_path THEN [x |-> x, ok |-> TRUE]
  ELSE IF ~new_tree_view_ok(x.fs, root_path) THEN [x |-> x, ok |-> FALSE]
  ELSE [x |-> [x EXCEPT !.tree = new_tree_view(x.fs, root_path),
                        !.history = push_history(x.history, x.tree),
                        !.current_root = root_path],
        ok |-> TRUE]

\* Explorer::reveal_file
reveal_file(x, path) ==
  IF starts_with(path, x.current_root)
  THEN LET r == reveal_item(x.fs, x.tree, strip_prefix(path, x.current_root))
       IN  [x |-> [x EXCEPT !.tree = r.tree], ok |-> r.ok]
  ELSE IF path = << >> THEN [x |-> x, ok |-> FALSE]
  ELSE LET parent == Parent(path)
           c == change_root(x, parent)
       IN  IF ~c.ok THEN c
           ELSE LET r == reveal_item(c.x.fs, c.x.tree, strip_prefix(path, parent))
                IN  [x |-> [c.x EXCEPT !.tree = r.tree], ok |-> r.ok]

\* FileInfo::is_parent of the item at path p of tree view t.
is_parent(f, t, p) == p = t.root \/ p \in f.dirs

\* Explorer::nearest_folder; None when the focused file has no parent.
nearest_folder(x) ==
  LET p == x.tree.selected
  IN  IF is_parent(x.fs, x.tree, p) THEN p ELSE Parent(p)

\* std::fs::create_dir_all(p): an error when a component of p is a file.
create_dir_all_ok(f, p) ==
  \A k \in 0..Len(p) : SubSeq(p, 1, k) \notin f.files

create_dir_all(f, p) ==
  [f EXCEPT !.dirs = @ \cup {SubSeq(p, 1, k) : k \in 0..Len(p)}]

\* Explorer::new_file
new_file(x, file_name) ==
  LET path == get_normalized_path(nearest_folder(x) \o file_name)
      made == IF path = << >> THEN x.fs ELSE create_dir_all(x.fs, Parent(path))
  IN  IF path # << >> /\ ~create_dir_all_ok(x.fs, Parent(path))
      THEN [x |-> x, ok |-> FALSE]
      ELSE IF path \in Entries(made)
      THEN [x |-> [x EXCEPT !.fs = made], ok |-> FALSE]
      ELSE reveal_file([x EXCEPT !.fs = [made EXCEPT !.files = @ \cup {path}]],
                       path)

\* Explorer::new_folder
new_folder(x, file_name) ==
  LET path == get_normalized_path(nearest_folder(x) \o file_name)
  IN  IF ~create_dir_all_ok(x.fs, path)
      THEN [x |-> x, ok |-> FALSE]
      ELSE reveal_file([x EXCEPT !.fs = create_dir_all(x.fs, path)], path)

\* Explorer::go_to_previous_root
go_to_previous_root(x) ==
  IF x.history # << >>
  THEN [x EXCEPT !.tree = x.history[Len(x.history)],
                 !.history = SubSeq(@, 1, Len(@) - 1)]
  ELSE x

\* Explorer::change_root_to_current_folder
change_root_to_current_folder(x) == change_root(x, x.tree.selected)

\* Explorer::change_root_parent_folder
change_root_parent_folder(x) ==
  IF x.current_root # << >>
  THEN change_root(x, Parent(x.current_root))
  ELSE [x |-> x, ok |-> TRUE]

\* The directory the editor runs in, and what lies around it.
WorkingDirectory == << "a" >>

InitialFs ==
  [dirs  |-> { << >>, << "a" >>, << "a", "b" >> },
   files |-> { << "g" >>, << "a", "f" >> }]

\* Explorer::new: the tree of the working directory, no history.
InitExplorerAt(root_path) ==
  /\ fs = InitialFs
  /\ tree = new_tree_view(InitialFs, root_path)
  /\ history = << >>
  /\ current_root = root_path
  /\ edits = 0
  /\ xop = "new"
  /\ xarg = << >>
  /\ xok = TRUE

-----------------------------------------------------------------------------
(* ui/explorer.rs: the explorer as a component: focus, size, prompts and   *)
(* the dispatch of events.                                                 *)
(*                                                                         *)
(* The explorer is a record of the fields of Self together with focus,     *)
(* open, area_width (Explorer.state), column_width, show_help,             *)
(* show_preview, prompt and prompting.  on_next_key is None from           *)
(* construction on and nothing sets it.                                    *)

\* The largest u16.
U16_MAX == 65535

\* Explorer::increase_size: the columns left to the editor.
EDITOR_MIN_WIDTH == 10

saturating_sub(a, b) == IF a < b THEN 0 ELSE a - b

saturating_add(a, b) == Min(a + b, U16_MAX)

NoPrompt == [action |-> "None", line |-> << >>]

\* Explorer::focus
focus(e) == [e EXCEPT !.focus = TRUE, !.open = TRUE]

\* Explorer::unfocus
unfocus(e) == [e EXCEPT !.focus = FALSE]

\* Explorer::close
close_still_focused(e) == [e EXCEPT !.open = FALSE]

close(e) == [e EXCEPT !.focus = FALSE, !.open = FALSE]

\* Explorer::toggle_help
toggle_help(e) == [e EXCEPT !.show_help = ~@]

\* Explorer::toggle_preview
toggle_preview(e) == [e EXCEPT !.show_preview = ~@]

\* Explorer::increase_size
increase_size(e) ==
  [e EXCEPT !.column_width =
              Min(saturating_sub(e.area_width, EDITOR_MIN_WIDTH),
                  saturating_add(e.column_width, 1))]

\* Explorer::decrease_size
decrease_size(e) == [e EXCEPT !.column_width = saturating_sub(@, 1)]

\* Explorer::new_create_file_prompt / new_create_folder_prompt: a prompt
\* with an empty line (nearest_folder is Ok for every item of the model).
new_create_prompt(e, action) ==
  [e EXCEPT !.prompt = [action |-> action, line |-> << >>]]

\* Explorer::toggle_current, the enter function of the tree view, and what
\* the tree view does with its answer: a file is opened in the editor and
\* the explorer loses the focus (TreeOp::Noop); a folder is opened with its
\* children loaded, or closed (TreeOp::GetChildsAndInsert).
toggle_current(e) ==
  LET p == e.tree.selected
  IN  IF p \in e.fs.files THEN [e EXCEPT !.focus = FALSE]
      ELSE IF p \in e.tree.opened
      THEN [e EXCEPT !.tree.opened = @ \ {p}]
      ELSE [e EXCEPT !.tree.opened = @ \cup {p},
                     !.tree.items = @ \cup Children(e.fs, p)]

\* TreeView::handle_event: in its own prompt the tree view stays there until
\* Esc or Enter; else "j" moves the cursor to the shown item given, Enter
\* calls the enter function on the current item, "/" opens the prompt.
tree_handle_event(e, ev, item) ==
  IF e.prompting
  THEN IF ev \in {"Esc", "Enter"} THEN [e EXCEPT !.prompting = FALSE] ELSE e
  ELSE CASE ev = "j"     -> [e EXCEPT !.tree.selected = item]
         [] ev = "Enter" -> toggle_current(e)
         [] ev = "/"     -> [e EXCEPT !.prompting = TRUE]
         [] OTHER        -> e

\* Explorer::handle_prompt_event with a prompt at hand (without one it
\* returns Ignored): Enter runs the action on the prompt's line, Esc and
\* Ctrl-c drop the prompt, every other key goes to the prompt, which then
\* holds the line given.
handle_prompt_event(e, ev, line) ==
  LET taken == [e EXCEPT !.prompt = NoPrompt]
  IN  CASE ev = "Enter" /\ e.prompt.action = "CreateFolder" ->
             new_folder(taken, e.prompt.line).x
        [] ev = "Enter" /\ e.prompt.action = "CreateFile" ->
             new_file(taken, e.prompt.line).x
        [] ev \in {"Esc", "ctrl-c"} -> taken
        [] OTHER -> [e EXCEPT !.prompt.line = line]

\* The key events of the model; "n" stands for the keys typed into a
\* prompt.  The other events are a resize and a mouse event.
Keys ==
  {"Esc", "q", "?", "a", "A", "B", "]", "[", "-", "+", "ctrl-t", "ctrl-c",
   "Enter", "j", "/", "n"}

Events == Keys \cup {"Resize", "Mouse"}

Answer(e, m, res) == [e |-> e, did |-> m, result |-> res]

\* <Explorer as Component>::handle_event
handle_event(e, ev, line, item) ==
  IF e.prompting
  THEN Answer(tree_handle_event(e, ev, item), "tree.handle_event", "Consumed")
  ELSE IF ev = "Resize" THEN Answer(e, "resize", "Consumed")
  ELSE IF ev \notin Keys THEN Answer(e, "none", "Ignored")
  ELSE IF ~e.focus THEN Answer(e, "none", "Ignored")
  ELSE IF e.prompt.action # "None"
  THEN Answer(handle_prompt_event(e, ev, line), "handle_prompt_event", "Consumed")
  ELSE CASE ev = "Esc" -> Answer(unfocus(e), "unfocus", "Consumed")
         [] ev = "q" -> Answer(close(e), "close", "Consumed")
         [] ev = "?" -> Answer(toggle_help(e), "toggle_help", "Consumed")
         [] ev = "a" ->
              Answer(new_create_prompt(e, "CreateFile"),
                     "new_create_file_prompt", "Consumed")
         [] ev = "A" ->
              Answer(new_create_prompt(e, "CreateFolder"),
                     "new_create_folder_prompt", "Consumed")
         [] ev = "B" ->
              Answer(change_root_parent_folder(e).x,
                     "change_root_parent_folder", "Consumed")
         [] ev = "]" ->
              Answer(change_root_to_current_folder(e).x,
                     "change_root_to_current_folder", "Consumed")
         [] ev = "[" ->
              Answer(go_to_previous_root(e), "go_to_previous_root", "Consumed")
         [] ev = "-" -> Answer(decrease_size(e), "decrease_size", "Consumed")
         [] ev = "+" -> Answer(increase_size(e), "increase_size", "Consumed")
         [] ev = "ctrl-t" -> Answer(toggle_preview(e), "toggle_preview", "Consumed")
         [] OTHER ->
              Answer(tree_handle_event(e, ev, item), "tree.handle_event", "Consumed")

\* Explorer::reveal_current_file; doc_path is the path of the current document,
\* << >> for a document without one.
reveal_current_file(e, doc_path) ==
  IF doc_path = << >> THEN focus(e) ELSE reveal_file(focus(e), doc_path).x

\* <Explorer as Component>::render, as far as it changes the explorer: an
\* area narrower than 10 columns is refused, an embedded explorer that is
\* open records the width of the area (render_embed).
render(e, width, embed) ==
  IF width < 10 \/ ~embed \/ ~e.open THEN e
  ELSE [e EXCEPT !.area_width = width]

\* column_width + 2 (render_embed) and column_width + 1 (render_float)
\* overflow u16.
render_overflows(e, width, embed) ==
  /\ width >= 10
  /\ IF embed THEN e.open /\ e.column_width + 2 > U16_MAX
              ELSE e.column_width + 1 > U16_MAX

\* The column widths of the configuration, and the widths of the area the
\* explorer is given to render in.
ColumnWidths == {0, 1, 30, U16_MAX}

AreaWidths == {5, 10, 11, 80, U16_MAX}

\* State::new and the other fields set by Explorer::new.
InitPanelWith(width) ==
  /\ state_focus = TRUE
  /\ state_open = TRUE
  /\ area_width = 0
  /\ column_width = width
  /\ show_help = FALSE
  /\ show_preview = FALSE
  /\ prompt = NoPrompt
  /\ prompting = FALSE
  /\ event = "none"
  /\ did = "new"
  /\ result = "none"

-----------------------------------------------------------------------------
(* ui/copilot_picker.rs: the picker of Copilot completions.                *)
(*                                                                         *)
(* A rope is the sequence of its chars.  A transaction is a record         *)
(* [changes, len]: the operations Retain(n), Delete(n), Insert(s) of its   *)
(* change set, in order, and the length of the text it applies to.  The    *)
(* picker is a record [original, cur, transactions], cur counted from 1.   *)
(* A callback is a record naming the closure handle_event built and the    *)
(* values it captured.                                                     *)

\* Most transactions handed to a picker.
MaxTransactions == 2

\* Longest original document.
MaxText == 2

Retain(n) == [kind |-> "Retain", n |-> n, s |-> << >>]
Delete(n) == [kind |-> "Delete", n |-> n, s |-> << >>]
Insert(s) == [kind |-> "Insert", n |-> 0, s |-> s]

\* ChangeSet::apply from char offset pos on.
RECURSIVE apply_changes(_, _, _)
apply_changes(changes, rope, pos) ==
  IF changes = << >> THEN rope
  ELSE LET c == Head(changes)
       IN  CASE c.kind = "Retain" -> apply_changes(Tail(changes), rope, pos + c.n)
             [] c.kind = "Delete" ->
                  apply_changes(Tail(changes),
                                SubSeq(rope, 1, pos) \o SubSeq(rope, pos + c.n + 1, Len(rope)),
                                pos)
             [] c.kind = "Insert" ->
                  apply_changes(Tail(changes),
                                SubSeq(rope, 1, pos) \o c.s \o SubSeq(rope, pos + 1, Len(rope)),
                                pos + Len(c.s))

\* Document::apply: a transaction made for a text of another length is
\* refused and the document stays as it is.
apply(t, rope) ==
  IF Len(rope) # t.len THEN rope ELSE apply_changes(t.changes, rope, 0)

\* ChangeSet::invert from char offset pos of the original text on.
RECURSIVE invert_changes(_, _, _)
invert_changes(changes, original_text, pos) ==
  IF changes = << >> THEN << >>
  ELSE LET c == Head(changes)
       IN  CASE c.kind = "Retain" ->
                  << Retain(c.n) >> \o invert_changes(Tail(changes), original_text, pos + c.n)
             [] c.kind = "Delete" ->
                  << Insert(SubSeq(original_text, pos + 1, pos + c.n)) >>
                    \o invert_changes(Tail(changes), original_text, pos + c.n)
             [] c.kind = "Insert" ->
                  << Delete(Len(c.s)) >> \o invert_changes(Tail(changes), original_text, pos)

\* The length of the text a change set produces.
RECURSIVE len_after(_)
len_after(changes) ==
  IF changes = << >> THEN 0
  ELSE LET c == Head(changes)
       IN  (CASE c.kind = "Retain" -> c.n
              [] c.kind = "Delete" -> 0
              [] c.kind = "Insert" -> Len(c.s))
           + len_after(Tail(changes))

\* Transaction::invert; it asserts that the text given has the length the
\* transaction applies to.
invert_ok(t, original_text) == Len(original_text) = t.len

invert(t, original_text) ==
  [changes |-> invert_changes(t.changes, original_text, 0),
   len |-> len_after(t.changes)]

\* CopilotCompletionPicker::new; None for no transactions.
CopilotCompletionPickerNew(rope, ts) ==
  [picker |-> [original |-> rope, cur |-> 1, transactions |-> ts],
   first |-> ts[1]]

NoPair == << >>

\* CopilotCompletionPicker::next: (prev_applied_transaction, next_transaction)
next_same(p) ==
  IF p.cur = Len(p.transactions) THEN [p |-> p, pair |-> NoPair]
  ELSE [p |-> [p EXCEPT !.cur = @ + 1],
        pair |-> << p.transactions[p.cur + 1], p.transactions[p.cur + 1] >>]

next(p) ==
  IF p.cur = Len(p.transactions) THEN [p |-> p, pair |-> NoPair]
  ELSE [p |-> [p EXCEPT !.cur = @ + 1],
        pair |-> << p.transactions[p.cur], p.transactions[p.cur + 1] >>]

\* CopilotCompletionPicker::prev
prev(p) ==
  IF p.cur = 1 THEN [p |-> p, pair |-> NoPair]
  ELSE [p |-> [p EXCEPT !.cur = @ - 1],
        pair |-> << p.transactions[p.cur], p.transactions[p.cur - 1] >>]

NoCallback == [kind |-> "None"]

\* update_picker
update_picker(pair, rope) ==
  IF pair = NoPair THEN NoCallback
  ELSE [kind |-> "undo_then_apply", prev |-> pair[1], next |-> pair[2],
        original |-> rope]

\* The events of the model: four keys the picker knows, one it does not,
\* and an event that is no key.
PickerEvents == {"ctrl-n", "ctrl-m", "Enter", "Esc", "x", "Resize"}

\* <CopilotCompletionPicker as Component>::handle_event
picker_handle_event(p, ev) ==
  CASE ev = "Resize" -> [p |-> p, result |-> "Ignored", callback |-> NoCallback]
    [] ev = "ctrl-n" ->
         [p |-> next(p).p, result |-> "Consumed",
          callback |-> update_picker(next(p).pair, p.original)]
    [] ev = "ctrl-m" ->
         [p |-> prev(p).p, result |-> "Consumed",
          callback |-> update_picker(prev(p).pair, p.original)]
    [] ev = "Enter" ->
         [p |-> p, result |-> "Consumed", callback |-> [kind |-> "remove_picker"]]
    [] ev = "Esc" ->
         [p |-> p, result |-> "Consumed",
          callback |-> [kind |-> "undo_remove_picker",
                        cur |-> p.transactions[p.cur], original |-> p.original]]
    [] OTHER -> [p |-> p, result |-> "Consumed", callback |-> NoCallback]

\* The closures: what they do to the document, whether they take the picker
\* off the compositor, whether the assertion of invert fails.
callback_panics(cb) ==
  CASE cb.kind = "undo_then_apply" -> ~invert_ok(cb.prev, cb.original)
    [] cb.kind = "undo_remove_picker" -> ~invert_ok(cb.cur, cb.original)
    [] OTHER -> FALSE

callback_doc(cb, rope) ==
  CASE cb.kind = "undo_then_apply" ->
         apply(cb.next, apply(invert(cb.prev, cb.original), rope))
    [] cb.kind = "undo_remove_picker" -> apply(invert(cb.cur, cb.original), rope)
    [] OTHER -> rope

callback_removes(cb) == cb.kind \in {"remove_picker", "undo_remove_picker"}

\* The documents and the transactions of the model: every text of up to
\* MaxText chars, and for a text the transactions that replace one stretch
\* of it, written as retain, delete, insert, retain.
Ropes == UNION {[1..n -> {"a", "b"}] : n \in 0..MaxText}

Replace(rope, from, to, s) ==
  [changes |-> << Retain(from), Delete(to - from), Insert(s), Retain(Len(rope) - to) >>,
   len |-> Len(rope)]

TransactionsOn(rope) ==
  {Replace(rope, span[1], span[2], s) :
     span \in {q \in (0..Len(rope)) \X (0..Len(rope)) : q[1] <= q[2]},
     s \in {<< >>, << "x" >>, << "x", "y" >>}}

\* The caller made a picker of the completions for the document and applied
\* the transaction new returned.
InitPickerWith(rope, ts) ==
  /\ original = rope
  /\ transactions = ts
  /\ cur = 1
  /\ doc = apply(CopilotCompletionPickerNew(rope, ts).first, rope)
  /\ callback = NoCallback
  /\ in_compositor = TRUE
  /\ key = "none"
  /\ ran = "None"

-----------------------------------------------------------------------------
(* Initial states.                                                         *)

Ranges(t) == {RangeNew(a, h) : a \in 0..Len(t), h \in 0..Len(t)}

\* A selection is kept sorted and free of overlapping ranges.
Selections(t) ==
  {sel \in UNION {[1..n -> Ranges(t)] : n \in 1..MaxRanges} :
     \A i \in 1..(Len(sel) - 1) : RangeTo(sel[i]) <= RangeFrom(sel[i + 1])}

InitStore ==
  /\ \E f \in Forests :
       /\ layers = f.layers
       /\ text = f.text
       /\ injection_ranges \in InjectionIndexes(f.layers)
  /\ current = TreeCursorNew.current
  /\ cursor = TreeCursorNew.cursor
  /\ panicked = FALSE
  /\ call = "new"
  /\ ret = FALSE
  /\ before = [current |-> TreeCursorNew.current, cursor |-> TreeCursorNew.cursor]
  /\ args = << >>
  /\ input = << >>
  /\ op = "none"
  /\ InitExplorerAt(WorkingDirectory)
  /\ InitPanelWith(30)
  /\ InitPickerWith(<< "a" >>, << Replace(<< "a" >>, 1, 1, << "x" >>) >>)

\* The editor holds any selection over the text.
Init == InitStore /\ selection \in Selections(text)

\* A selection with an offset beyond the end of the text (a selection of
\* another revision of the text).
RangesOver(t) ==
  {RangeNew(a, h) : a \in 0..(Len(t) + MaxOver), h \in 0..(Len(t) + MaxOver)}

SelectionsOver(t) ==
  {sel \in UNION {[1..n -> RangesOver(t)] : n \in 1..MaxRanges} :
     /\ \A i \in 1..(Len(sel) - 1) : RangeTo(sel[i]) <= RangeFrom(sel[i + 1])
     /\ \E i \in 1..Len(sel) : RangeTo(sel[i]) > Len(t)}

InitOver == InitStore /\ selection \in SelectionsOver(text)

\* A caller of the cursor alone: the selection plays no part.
InitCursor == InitStore /\ selection = << RangeNew(0, 0) >>

-----------------------------------------------------------------------------
(* The selection operations as steps of the editor.                        *)

Apply(m, out) ==
  /\ ~panicked
  /\ IF Panics(m, selection)
     THEN panicked' = TRUE /\ selection' = selection
     ELSE panicked' = FALSE /\ selection' = out
  /\ input' = selection
  /\ op' = m
  /\ UNCHANGED <<storeVars, current, cursor, call, ret, before, args,
               explorerVars, panelVars, pickerVars>>

ExpandSelection == Apply("expand_selection", expand_selection(selection))

ShrinkSelection == Apply("shrink_selection", shrink_selection(selection))

SelectNextSibling == Apply("select_next_sibling", select_next_sibling(selection))

SelectPrevSibling == Apply("select_prev_sibling", select_prev_sibling(selection))

Next ==
  \/ ExpandSelection
  \/ ShrinkSelection
  \/ SelectNextSibling
  \/ SelectPrevSibling

Spec == Init /\ [][Next]_vars

\* The same operations on a selection that reaches beyond the text.
SpecOver == InitOver /\ [][Next]_vars

\* A step of expand_selection seen from outside: the operation is called on
\* a selection it has not just returned unchanged, and returns a selection of
\* the same number of ranges or fails.  Every step of ExpandSelection that
\* changes the state is such a step, and one is possible exactly when
\* ExpandSelection can change the state.
ExpandSelectionTaken ==
  /\ ~panicked
  /\ ~(op = "expand_selection" /\ input = selection)
  /\ selection' \in [1..Len(selection) -> Ranges(text)]
  /\ panicked' \in BOOLEAN
  /\ input' = selection
  /\ op' = "expand_selection"
  /\ UNCHANGED <<storeVars, current, cursor, call, ret, before, args,
               explorerVars, panelVars, pickerVars>>

\* A caller that keeps expanding the selection for as long as that changes
\* anything: weak fairness of ExpandSelection, given by its steps.
SpecExpand == Init /\ [][ExpandSelection]_vars /\ WF_vars(ExpandSelectionTaken)

-----------------------------------------------------------------------------
(* The cursor operations as steps of a caller holding one cursor.          *)

Cur == [current |-> current, cursor |-> cursor, panicked |-> panicked]

Step(name, a, r) ==
  /\ ~panicked
  /\ args' = a
  /\ current' = r.c.current
  /\ cursor' = r.c.cursor
  /\ panicked' = r.c.panicked
  /\ call' = name
  /\ ret' = r.ok
  /\ before' = [current |-> current, cursor |-> cursor]
  /\ UNCHANGED <<storeVars, selVars, explorerVars, panelVars, pickerVars>>

\* Any byte range, also one reaching beyond the end of the text.
ResetToByteRange ==
  \E s \in 0..(len_bytes + MaxOver), e \in 0..(len_bytes + MaxOver) :
    /\ s <= e
    /\ Step("reset_to_byte_range", <<s, e>>,
            [c |-> reset_to_byte_range(Cur, s, e), ok |-> TRUE])

GotoParent == Step("goto_parent", << >>, goto_parent(Cur))

GotoFirstChild == Step("goto_first_child", << >>, goto_first_child(Cur))

GotoNextSibling == Step("goto_next_sibling", << >>, goto_next_sibling(Cur))

GotoPrevSibling == Step("goto_prev_sibling", << >>, goto_prev_sibling(Cur))

NextCursor ==
  \/ ResetToByteRange
  \/ GotoParent
  \/ GotoFirstChild
  \/ GotoNextSibling
  \/ GotoPrevSibling

SpecCursor == InitCursor /\ [][NextCursor]_vars

-----------------------------------------------------------------------------
(* The explorer operations as steps of a user at the explorer.             *)

Self == [fs |-> fs, tree |-> tree, history |-> history,
         current_root |-> current_root]

\* A step of the explorer.  Changes of the root and returns to an earlier
\* root are free for as long as nothing else has run; from the first reveal,
\* creation or cursor move on, every operation counts against MaxEdits.
XStep(name, arg, r, cost) ==
  /\ IF cost = 0 /\ edits = 0
     THEN edits' = 0
     ELSE edits < MaxEdits /\ edits' = edits + 1
  /\ fs' = r.x.fs
  /\ tree' = r.x.tree
  /\ history' = r.x.history
  /\ current_root' = r.x.current_root
  /\ xop' = name
  /\ xarg' = arg
  /\ xok' = r.ok
  /\ UNCHANGED <<storeVars, cursorVars, selVars, panelVars, pickerVars>>

\* The names typed at the create prompts.
NewNames == { << "n" >>, << ".", "n" >>, << "d", "n" >>, << "..", "n" >> }

ChangeRootToCurrentFolder ==
  XStep("change_root_to_current_folder", << >>,
        change_root_to_current_folder(Self), 0)

ChangeRootParentFolder ==
  XStep("change_root_parent_folder", << >>, change_root_parent_folder(Self), 0)

GoToPreviousRoot ==
  XStep("go_to_previous_root", << >>,
        [x |-> go_to_previous_root(Self), ok |-> TRUE], 0)

\* reveal_current_file: the path of a document, a file of the file system.
RevealFile ==
  \E path \in fs.files : XStep("reveal_file", path, reveal_file(Self, path), 1)

NewFile ==
  \E name \in NewNames : XStep("new_file", name, new_file(Self, name), 1)

NewFolder ==
  \E name \in NewNames : XStep("new_folder", name, new_folder(Self, name), 1)

\* TreeView::move_up / move_down: the cursor goes to another shown item.
MoveCursor ==
  \E p \in Visible(tree) :
    XStep("move", p, [x |-> [Self EXCEPT !.tree.selected = p], ok |-> TRUE], 1)

NextExplorer ==
  \/ ChangeRootToCurrentFolder
  \/ ChangeRootParentFolder
  \/ GoToPreviousRoot
  \/ RevealFile
  \/ NewFile
  \/ NewFolder
  \/ MoveCursor

\* The explorer alone: the syntax trees play no part.
InitExplorer ==
  /\ InitCursor
  /\ layers = EmptyForest.layers
  /\ text = EmptyForest.text

SpecExplorer == InitExplorer /\ [][NextExplorer]_vars

-----------------------------------------------------------------------------
(* The explorer as a component of the editor: events, calls and renders.   *)

Whole ==
  [fs |-> fs, tree |-> tree, history |-> history, current_root |-> current_root,
   focus |-> state_focus, open |-> state_open, area_width |-> area_width,
   column_width |-> column_width, show_help |-> show_help,
   show_preview |-> show_preview, prompt |-> prompt, prompting |-> prompting]

\* A step of the component: every step counts against MaxEdits.
PStep(e, ev, m, res, panics) ==
  /\ ~panicked
  /\ edits < MaxEdits
  /\ edits' = edits + 1
  /\ fs' = e.fs
  /\ tree' = e.tree
  /\ history' = e.history
  /\ current_root' = e.current_root
  /\ state_focus' = e.focus
  /\ state_open' = e.open
  /\ area_width' = e.area_width
  /\ column_width' = e.column_width
  /\ show_help' = e.show_help
  /\ show_preview' = e.show_preview
  /\ prompt' = e.prompt
  /\ prompting' = e.prompting
  /\ event' = ev
  /\ did' = m
  /\ result' = res
  /\ panicked' = panics
  /\ UNCHANGED <<storeVars, selVars, current, cursor, call, ret, before, args,
                 xop, xarg, xok, pickerVars>>

HandleEvent ==
  \E ev \in Events, line \in NewNames, item \in Visible(tree) :
    LET a == handle_event(Whole, ev, line, item)
    IN  PStep(a.e, ev, a.did, a.result, FALSE)

\* The editor's commands that open or focus the explorer.
Focus == PStep(focus(Whole), "none", "focus", "none", FALSE)

RevealCurrentFile ==
  \E doc_path \in {<< >>} \cup fs.files :
    PStep(reveal_current_file(Whole, doc_path), "none", "reveal_current_file",
          "none", FALSE)

\* The compositor renders the explorer.  Where the sum overflows, a build
\* with overflow checks panics and one without carries on.
Render ==
  \E width \in AreaWidths, embed \in BOOLEAN :
    \/ PStep(render(Whole, width, embed), "none", "render", "none", FALSE)
    \/ /\ render_overflows(Whole, width, embed)
       /\ PStep(Whole, "none", "render", "none", TRUE)

NextComponent ==
  \/ HandleEvent
  \/ Focus
  \/ RevealCurrentFile
  \/ Render

\* No syntax tree to speak of: the selection operations play no part.
InitEmptySyntax ==
  /\ layers = EmptyForest.layers
  /\ text = EmptyForest.text
  /\ injection_ranges \in InjectionIndexes(EmptyForest.layers)
  /\ current = TreeCursorNew.current
  /\ cursor = TreeCursorNew.cursor
  /\ panicked = FALSE
  /\ call = "new"
  /\ ret = FALSE
  /\ before = [current |-> TreeCursorNew.current, cursor |-> TreeCursorNew.cursor]
  /\ args = << >>
  /\ input = << >>
  /\ op = "none"
  /\ selection = << RangeNew(0, 0) >>

\* Explorer::new with the column width of the configuration.
InitComponent ==
  /\ InitEmptySyntax
  /\ InitExplorerAt(WorkingDirectory)
  /\ (\E width \in ColumnWidths : InitPanelWith(width))
  /\ InitPickerWith(<< "a" >>, << Replace(<< "a" >>, 1, 1, << "x" >>) >>)

SpecComponent == InitComponent /\ [][NextComponent]_vars

-----------------------------------------------------------------------------
(* The picker as the top layer of the compositor: the compositor hands it  *)
(* every event and runs the callback it returns before the next event.     *)

Picker == [original |-> original, cur |-> cur, transactions |-> transactions]

PickerHandleEvent ==
  \E ev \in PickerEvents :
    LET a == picker_handle_event(Picker, ev)
    IN  /\ ~panicked
        /\ in_compositor
        /\ callback = NoCallback
        /\ cur' = a.p.cur
        /\ callback' = a.callback
        /\ key' = ev
        /\ ran' = "None"
        /\ UNCHANGED <<original, transactions, doc, in_compositor, storeVars,
                       cursorVars, selVars, explorerVars, panelVars>>

RunCallback ==
  /\ ~panicked
  /\ callback # NoCallback
  /\ IF callback_panics(callback)
     THEN panicked' = TRUE /\ UNCHANGED <<doc, in_compositor>>
     ELSE /\ panicked' = FALSE
          /\ doc' = callback_doc(callback, doc)
          /\ in_compositor' = (in_compositor /\ ~callback_removes(callback))
  /\ callback' = NoCallback
  /\ ran' = callback.kind
  /\ UNCHANGED <<original, transactions, cur, key, storeVars, selVars,
                 current, cursor, call, ret, before, args, explorerVars,
                 panelVars>>

NextPicker ==
  \/ PickerHandleEvent
  \/ RunCallback

\* Any document, and any completions made for it.
InitPicker ==
  /\ InitEmptySyntax
  /\ InitExplorerAt(WorkingDirectory)
  /\ InitPanelWith(30)
  /\ \E rope \in Ropes :
       \E ts \in UNION {[1..n -> TransactionsOn(rope)] : n \in 1..MaxTransactions} :
         InitPickerWith(rope, ts)

SpecPicker == InitPicker /\ [][NextPicker]_vars

-----------------------------------------------------------------------------
(* Vocabulary of the properties.  After a selection operation, input is    *)
(* the selection it was given and selection the one it returned.           *)

Done(m) == op = m /\ ~panicked

DoneAny == op # "none" /\ ~panicked

\* Byte span of range i of the input, and of range i of the result.
InSpan(i) == <<char_to_byte(RangeFrom(input[i])), char_to_byte(RangeTo(input[i]))>>

OutSpan(i) == <<char_to_byte(RangeFrom(selection[i])), char_to_byte(RangeTo(selection[i]))>>

SpanContains(outer, inner) == outer[1] <= inner[1] /\ inner[2] <= outer[2]

StrictlyLarger(outer, inner) == SpanContains(outer, inner) /\ outer # inner

\* The node reset_to_byte_range locates for range i of the input.
Located(i) == reset_to_byte_range(TreeCursorNew, InSpan(i)[1], InSpan(i)[2])

\* c, its parent, its grandparent, ... as far as goto_parent succeeds:
\* tree parents, then parent layers.
RECURSIVE AncestorChain(_)
AncestorChain(c) ==
  LET r == goto_parent(c)
  IN IF r.ok THEN <<c>> \o AncestorChain(r.c) ELSE <<c>>

\* Every position a cursor can be left on.
AllCursors ==
  UNION {{[current |-> l, cursor |-> n, panicked |-> FALSE] : n \in 1..Len(Tree(l))} :
           l \in LayerIds}

\* The closure of operation m on one range, run on cursor c, and the range
\* it returns.
Closure(m, c, range) ==
  IF m = "expand_selection" THEN ExpandRange(c, range) ELSE MotionRange(m, c, range)

ClosureRange(m, c, range) == NodeRange(Closure(m, c, range), range)

SiblingMoves == {"select_next_sibling", "select_prev_sibling"}

\* The sibling of c's node in the direction of m; 0 = None
SiblingNode(m, c) ==
  IF m = "select_next_sibling" THEN next_sibling(c.current, c.cursor)
  ELSE prev_sibling(c.current, c.cursor)

AtNode(c, n) == [c EXCEPT !.cursor = n]

-----------------------------------------------------------------------------
\* C1: the byte span of every range returned by expand_selection contains
\* the byte span of the input range it was computed from.
C1_ExpandContainsInput ==
  Done("expand_selection") =>
    \A i \in 1..Len(input) : SpanContains(OutSpan(i), InSpan(i))

\* C2: expand_selection returns the span of the reference node: the located
\* node if its span differs from the input span, else its nearest ancestor
\* (tree parents, then parent layers) whose span differs, else the last node
\* the ascent reached.
ReferenceNode(i) ==
  LET chain == AncestorChain(Located(i))
      differing == {k \in 1..Len(chain) : node_byte_range(chain[k]) # InSpan(i)}
  IN IF differing = {} THEN chain[Len(chain)]
     ELSE chain[CHOOSE k \in differing : \A j \in differing : k <= j]

C2_ExpandReferenceNode ==
  Done("expand_selection") =>
    \A i \in 1..Len(input) : selection[i] = NodeRange(ReferenceNode(i), input[i])

\* C2 witness: an expansion that climbed past an ancestor of identical span.
C2_Witness ==
  /\ Done("expand_selection")
  /\ \E i \in 1..Len(input) :
       LET chain == AncestorChain(Located(i))
       IN /\ Len(chain) >= 3
          /\ node_byte_range(chain[1]) = InSpan(i)
          /\ node_byte_range(chain[2]) = InSpan(i)
          /\ node_byte_range(chain[3]) # InSpan(i)
          /\ OutSpan(i) = node_byte_range(chain[3])

\* C3: expand_selection returns the input span only when no ancestor of the
\* located node has a different span; when one has, the returned span is
\* strictly larger than the input span.
HasDifferingAncestor(i) ==
  LET chain == AncestorChain(Located(i))
  IN \E k \in 2..Len(chain) : node_byte_range(chain[k]) # InSpan(i)

C3_ExpandStrictlyLarger ==
  Done("expand_selection") =>
    \A i \in 1..Len(input) :
      /\ OutSpan(i) = InSpan(i) => ~HasDifferingAncestor(i)
      /\ HasDifferingAncestor(i) => StrictlyLarger(OutSpan(i), InSpan(i))

\* C4: shrink_selection returns the span of the node one goto_first_child
\* reaches from the located node, and that span equals the located node's
\* span only if the node has no child and no injected layer to descend into.
C4_ShrinkFirstChild ==
  Done("shrink_selection") =>
    \A i \in 1..Len(input) :
      LET n == Located(i)
      IN /\ selection[i] = NodeRange(goto_first_child(n).c, input[i])
         /\ OutSpan(i) = node_byte_range(n) =>
              /\ child0(n.current, n.cursor) = 0
              /\ injection_get(node_byte_range(n)) = 0

\* C5: select_next_sibling / select_prev_sibling return the span of the
\* located node's sibling when it has one, else the span of the sibling of
\* its parent (one goto_parent) when that has one; no ancestor beyond the
\* parent is tried.
C5_SiblingOrParentSibling ==
  \A m \in SiblingMoves :
    Done(m) =>
      \A i \in 1..Len(input) :
        LET n == Located(i)
            p == goto_parent(n)
        IN /\ SiblingNode(m, n) # 0 =>
                selection[i] = NodeRange(AtNode(n, SiblingNode(m, n)), input[i])
           /\ (SiblingNode(m, n) = 0 /\ p.ok /\ SiblingNode(m, p.c) # 0) =>
                selection[i] = NodeRange(AtNode(p.c, SiblingNode(m, p.c)), input[i])
           /\ (SiblingNode(m, n) = 0 /\ ~(p.ok /\ SiblingNode(m, p.c) # 0)) =>
                selection[i] \in {NodeRange(n, input[i]), NodeRange(p.c, input[i])}

\* C5 witness: the last child of a node stepped to the next sibling of its
\* parent.
C5_Witness ==
  /\ Done("select_next_sibling")
  /\ \E i \in 1..Len(input) :
       LET n == Located(i)
           p == goto_parent(n)
       IN /\ next_sibling(n.current, n.cursor) = 0
          /\ p.ok
          /\ next_sibling(p.c.current, p.c.cursor) # 0
          /\ OutSpan(i) = byte_range(p.c.current, next_sibling(p.c.current, p.c.cursor))

\* C6: when the sibling move fails on the located node and again on its
\* parent, the returned range is the span of the located node.
C6_SiblingFailureUnchanged ==
  \A m \in SiblingMoves :
    Done(m) =>
      \A i \in 1..Len(input) :
        LET n == Located(i)
            p == goto_parent(n)
        IN (SiblingNode(m, n) = 0 /\ p.ok /\ SiblingNode(m, p.c) = 0) =>
             selection[i] = NodeRange(n, input[i])

\* C7: every output range has the direction of its input range: head before
\* anchor in, head before anchor out; forward in, forward out.
C7_DirectionPreserved ==
  DoneAny =>
    \A i \in 1..Len(input) :
      /\ input[i].head < input[i].anchor => selection[i].head < selection[i].anchor
      /\ Direction(input[i]) = "Forward" => Direction(selection[i]) = "Forward"

\* C7 amended: every output range has the direction of its input range
\* unless the node reached is zero-width, where head = anchor; the head is
\* never moved behind the anchor of a backward input.
C7_DirectionPreservedUnlessEmpty ==
  DoneAny =>
    \A i \in 1..Len(input) :
      /\ input[i].head < input[i].anchor =>
           \/ selection[i].head < selection[i].anchor
           \/ /\ selection[i].head = selection[i].anchor
              /\ \E c \in AllCursors :
                   /\ start_byte(c.current, c.cursor) = end_byte(c.current, c.cursor)
                   /\ OutSpan(i) = node_byte_range(c)
      /\ Direction(input[i]) = "Forward" => Direction(selection[i]) = "Forward"

\* C7 witness: a backward range moved to another, non-empty node.
C7_Witness ==
  /\ DoneAny
  /\ \E i \in 1..Len(input) :
       /\ input[i].head < input[i].anchor
       /\ selection[i].head < selection[i].anchor
       /\ OutSpan(i) # InSpan(i)

C9_CursorReuseIndependent ==
  DoneAny =>
    \A i \in 1..Len(input) :
      \A c0 \in AllCursors : selection[i] = ClosureRange(op, c0, input[i])

\* C9 witness: a range located in another layer than the one the previous
\* range left the cursor in.
C9_Witness ==
  /\ DoneAny
  /\ \E i \in 2..Len(input) :
       /\ CursorAfter(op, input, i - 1).current # Located(i).current
       /\ CursorAfter(op, input, i - 1).current # root

\* C10: no cursor operation panics, the current layer is a key of the layer
\* store, and a step that cannot proceed returns false without moving.
CannotProceed ==
  LET l == before.current
      n == before.cursor
  IN \/ call = "goto_parent" /\ NodeParent(l, n) = 0 /\ l = root
     \/ call = "goto_first_child" /\ injection_get(byte_range(l, n)) = 0 /\ child0(l, n) = 0
     \/ call = "goto_next_sibling" /\ next_sibling(l, n) = 0
     \/ call = "goto_prev_sibling" /\ prev_sibling(l, n) = 0

C10_NoPanic ==
  /\ ~panicked
  /\ current \in LayerIds
  /\ cursor \in 1..Len(Tree(current))
  /\ CannotProceed => (ret = FALSE /\ current = before.current /\ cursor = before.cursor)

\* C10 witness: goto_parent followed the parent link of a non-root layer.
C10_Witness ==
  /\ call = "goto_parent"
  /\ ret = TRUE
  /\ NodeParent(before.current, before.cursor) = 0
  /\ before.current # root
  /\ current = layers[before.current].parent

\* C11: when an endpoint of an input range lies beyond the text, the
\* operation raises the failure of the offset translation: it returns no
\* selection, whatever the other ranges are.
C11_OutOfBoundsSurfaces ==
  (op # "none" /\ \E i \in 1..Len(input) : RangeTo(input[i]) > len_chars) =>
    (panicked /\ selection = input)

\* C11 witness: the failure raised for the second range after the first one,
\* within the text, was navigated.
C11_Witness ==
  /\ op # "none"
  /\ panicked
  /\ Len(input) = 2
  /\ RangeTo(input[1]) <= len_chars
  /\ RangeFrom(input[1]) < RangeTo(input[1])
  /\ RangeTo(input[2]) > len_chars

\* C12: every successful goto_parent moves to the tree parent in the same
\* layer or to a layer of strictly smaller depth, so a measure over a cursor
\* position (layer depth, then node depth) strictly decreases and the ascent
\* loop of expand_selection takes finitely many steps.
RECURSIVE NodeDepth(_, _)
NodeDepth(l, n) == IF NodeParent(l, n) = 0 THEN 0 ELSE 1 + NodeDepth(l, NodeParent(l, n))

TreeBound == 1 + Cardinality(UNION {1..Len(Tree(l)) : l \in LayerIds})

Measure(l, n) == layers[l].depth * TreeBound + NodeDepth(l, n)

C12_AscentDecreases ==
  (call = "goto_parent" /\ ret) =>
    /\ \/ current = before.current /\ cursor = NodeParent(before.current, before.cursor)
       \/ layers[current].depth < layers[before.current].depth
    /\ Measure(current, cursor) < Measure(before.current, before.cursor)

\* C12 witness: an ascent into the enclosing layer that landed below the
\* root node of its tree.
C12_Witness ==
  /\ call = "goto_parent"
  /\ ret
  /\ layers[current].depth < layers[before.current].depth
  /\ NodeDepth(current, cursor) > NodeDepth(before.current, before.cursor)

\* C13: for a range whose byte span is the span of a node, shrink_selection
\* followed by expand_selection yields a span containing that node's span.
IsNodeSpan(span) == \E c \in AllCursors : node_byte_range(c) = span

C13_ShrinkThenExpandContains ==
  [][(op = "shrink_selection" /\ op' = "expand_selection" /\ ~panicked') =>
       \A i \in 1..Len(input) :
         IsNodeSpan(InSpan(i)) => SpanContains(OutSpan(i)', InSpan(i))]_vars

\* C14: select_next_sibling followed by select_prev_sibling returns the span
\* of the original node, provided that node, or its parent through the
\* one-level fallback, has a next and a previous sibling.
HasSiblingAtLevel(m, c) ==
  \/ SiblingNode(m, c) # 0
  \/ goto_parent(c).ok /\ SiblingNode(m, goto_parent(c).c) # 0

C14_SiblingRoundTrip ==
  [][(op = "select_next_sibling" /\ op' = "select_prev_sibling" /\ ~panicked') =>
       \A i \in 1..Len(input) :
         (/\ HasSiblingAtLevel("select_next_sibling", Located(i))
          /\ HasSiblingAtLevel("select_prev_sibling", Located(i))) =>
           OutSpan(i)' = node_byte_range(Located(i))]_vars

\* C14 amended: the round trip returns the original node's span when the
\* node has a direct next sibling and that sibling's span locates the sibling
\* again; after the one-level fallback, when the parent's next sibling is
\* located again, it returns the span of the parent.
LocatedIn(sel, i) ==
  reset_to_byte_range(TreeCursorNew, char_to_byte(RangeFrom(sel[i])),
                      char_to_byte(RangeTo(sel[i])))

DirectRoundTrip(n, back, span) ==
  (/\ next_sibling(n.current, n.cursor) # 0
   /\ back = AtNode(n, next_sibling(n.current, n.cursor))) =>
    span = node_byte_range(n)

FallbackRoundTrip(n, back, span) ==
  LET p == goto_parent(n)
  IN (/\ next_sibling(n.current, n.cursor) = 0
      /\ p.ok
      /\ next_sibling(p.c.current, p.c.cursor) # 0
      /\ back = AtNode(p.c, next_sibling(p.c.current, p.c.cursor))) =>
       span = node_byte_range(p.c)

C14_SiblingRoundTripRelocated ==
  [][(op = "select_next_sibling" /\ op' = "select_prev_sibling" /\ ~panicked') =>
       \A i \in 1..Len(input) :
         /\ DirectRoundTrip(Located(i), LocatedIn(input', i), OutSpan(i)')
         /\ FallbackRoundTrip(Located(i), LocatedIn(input', i), OutSpan(i)')]_vars

\* C14 witness: select_prev_sibling has run on the result of
\* select_next_sibling for a node between two siblings, and returned the
\* node's span.
C14_Witness ==
  /\ Done("select_prev_sibling")
  /\ \E sel \in Selections(text) :
       /\ ~Panics("select_next_sibling", sel)
       /\ select_next_sibling(sel) = input
       /\ \E i \in 1..Len(sel) :
            LET n == LocatedIn(sel, i)
            IN /\ next_sibling(n.current, n.cursor) # 0
               /\ prev_sibling(n.current, n.cursor) # 0
               /\ Located(i) = AtNode(n, next_sibling(n.current, n.cursor))
               /\ OutSpan(i) = node_byte_range(n)

\* C15: for a range inside embedded layer C, repeated expand_selection
\* eventually yields the span of C's root node, and the very next
\* expand_selection yields the span of the node hosting the injection.
Embedded == 2..MaxLayers

RootSpan(C) == byte_range(C, root_node(C))

HostSpan(C) == layers[C].range

\* Range i of the selection is located at a node of layer C containing it.
InsideLayer(i, C) ==
  /\ i <= Len(selection)
  /\ C <= Len(layers)
  /\ ~panicked
  /\ LocatedIn(selection, i).current = C
  /\ SpanContains(node_byte_range(LocatedIn(selection, i)), OutSpan(i))

AtRootSpan(i, C) ==
  /\ i <= Len(selection)
  /\ C <= Len(layers)
  /\ OutSpan(i) = RootSpan(C)

C15_ExpandReachesHost ==
  /\ \A i \in 1..MaxRanges : \A C \in Embedded :
       InsideLayer(i, C) ~> AtRootSpan(i, C)
  /\ [][\A i \in 1..MaxRanges : \A C \in Embedded :
          (InsideLayer(i, C) /\ AtRootSpan(i, C)) => OutSpan(i)' = HostSpan(C)]_vars

\* C15 amended: the expansion after the embedded root's span yields the span
\* of the nearest ancestor, across layers, whose span differs from it: a node
\* of an enclosing layer with a strictly larger span, which is the hosting
\* node when the host's span differs from the embedded root's and no
\* enclosing-layer node lies between the two.
NodeBetween(C) ==
  \E c \in AllCursors :
    /\ c.current # C
    /\ StrictlyLarger(node_byte_range(c), RootSpan(C))
    /\ StrictlyLarger(HostSpan(C), node_byte_range(c))

NextAbove(i, C, span) ==
  LET chain == AncestorChain(LocatedIn(selection, i))
      differing == {k \in 1..Len(chain) : node_byte_range(chain[k]) # RootSpan(C)}
      first == chain[CHOOSE k \in differing : \A j \in differing : k <= j]
  IN IF differing = {} THEN span = RootSpan(C)
     ELSE /\ span = node_byte_range(first)
          /\ layers[first.current].depth < layers[C].depth
          /\ StrictlyLarger(span, RootSpan(C))
          /\ (HostSpan(C) # RootSpan(C) /\ ~NodeBetween(C)) => span = HostSpan(C)

C15_ExpandReachesNextAbove ==
  /\ \A i \in 1..MaxRanges : \A C \in Embedded :
       InsideLayer(i, C) ~> AtRootSpan(i, C)
  /\ [][\A i \in 1..MaxRanges : \A C \in Embedded :
          (InsideLayer(i, C) /\ AtRootSpan(i, C)) => NextAbove(i, C, OutSpan(i)')]_vars

\* C15 witness: a second expansion in a row that started on the span of an
\* embedded root and returned the span of the hosting node.
C15_Witness ==
  /\ Done("expand_selection")
  /\ \E sel \in Selections(text) : \E i \in 1..Len(sel) : \E C \in Embedded :
       /\ C <= Len(layers)
       /\ ~Panics("expand_selection", sel)
       /\ expand_selection(sel) = input
       /\ sel # input
       /\ LocatedIn(sel, i).current = C
       /\ Located(i).current = C
       /\ InSpan(i) = RootSpan(C)
       /\ HostSpan(C) # RootSpan(C)
       /\ OutSpan(i) = HostSpan(C)

\* C16: after reset_to_byte_range(start, end) the current layer has the
\* greatest depth among the layers whose coverage contains [start, end), the
\* root layer being a candidate, and the current node is the smallest node
\* of that layer's tree whose span contains [start, end).
NodeContains(l, k, s, e) == start_byte(l, k) <= s /\ e <= end_byte(l, k)

Smallest(l, n, s, e) ==
  /\ NodeContains(l, n, s, e)
  /\ \A k \in 1..Len(Tree(l)) :
       NodeContains(l, k, s, e) => ~StrictlyLarger(byte_range(l, n), byte_range(l, k))

Covering(s, e) == {l \in LayerIds : l = root \/ contains_byte_range(l, s, e)}

DeepestCovering(l, s, e) ==
  /\ l \in Covering(s, e)
  /\ \A k \in Covering(s, e) : layers[k].depth <= layers[l].depth

C16_ResetDeepestSmallest ==
  call = "reset_to_byte_range" =>
    /\ DeepestCovering(current, args[1], args[2])
    /\ Smallest(current, cursor, args[1], args[2])

\* C16 amended: the current node is the smallest node holding the range,
\* where a node holds a non-empty range it contains and holds an empty range
\* at s when start <= s < end; when no node holds the range it is the root
\* node of the layer.
NodeHolds(l, k, s, e) ==
  IF s < e THEN NodeContains(l, k, s, e)
  ELSE start_byte(l, k) <= s /\ s < end_byte(l, k)

SmallestHolding(l, n, s, e) ==
  /\ NodeHolds(l, n, s, e)
  /\ \A k \in 1..Len(Tree(l)) :
       NodeHolds(l, k, s, e) => ~StrictlyLarger(byte_range(l, n), byte_range(l, k))

C16_ResetDeepestSmallestHolding ==
  call = "reset_to_byte_range" =>
    /\ DeepestCovering(current, args[1], args[2])
    /\ IF \E k \in 1..Len(Tree(current)) : NodeHolds(current, k, args[1], args[2])
       THEN SmallestHolding(current, cursor, args[1], args[2])
       ELSE cursor = root_node(current)

\* C16 witness: a reset from another layer into the deepest of several
\* covering layers, onto a node below its root.
C16_Witness ==
  /\ call = "reset_to_byte_range"
  /\ Cardinality(Covering(args[1], args[2])) >= 3
  /\ before.current # current
  /\ cursor # root_node(current)
  /\ args[1] < args[2]

\* C17: reset_to_byte_range never fails: when no node of the chosen layer's
\* tree contains the range the cursor is on that layer's root node, and when
\* the range lies outside every layer's coverage the cursor is in the root
\* layer, on its root node.
C17_ResetNeverFails ==
  call = "reset_to_byte_range" =>
    /\ ~panicked
    /\ ret
    /\ current \in LayerIds
    /\ cursor \in 1..Len(Tree(current))
    /\ (~\E k \in 1..Len(Tree(current)) : NodeContains(current, k, args[1], args[2]))
         => cursor = root_node(current)
    /\ (~\E l \in LayerIds \ {root} : contains_byte_range(l, args[1], args[2]))
         => current = root
    /\ (~\E l \in LayerIds : contains_byte_range(l, args[1], args[2]))
         => (current = root /\ cursor = root_node(root))

\* C17 witness: a cursor left in an embedded layer, below its root, was reset
\* with a range reaching beyond the text.
C17_Witness ==
  /\ call = "reset_to_byte_range"
  /\ args[2] > len_bytes
  /\ before.current # root
  /\ before.cursor # root_node(before.current)
  /\ current = root
  /\ cursor = root_node(root)

\* C18: a second reset_to_byte_range(s, e) right after the first leaves the
\* cursor on the same layer and node.
C18_ResetIdempotent ==
  [][(call = "reset_to_byte_range" /\ call' = "reset_to_byte_range" /\ args' = args) =>
       (current' = current /\ cursor' = cursor)]_vars

\* C18 witness: a reset that started on the position it returned, in an
\* embedded layer below the root node.
C18_Witness ==
  /\ call = "reset_to_byte_range"
  /\ before = [current |-> current, cursor |-> cursor]
  /\ current # root
  /\ cursor # root_node(current)
  /\ args[1] < args[2]

\* C19: goto_parent on a node without tree parent in a non-root layer C
\* succeeds, makes C's parent layer current and puts the cursor on the
\* smallest node of the parent's tree containing C's coverage, or on its
\* root node if there is none; the position is not one of C's tree.
C19_AscentByCoverage ==
  (/\ call = "goto_parent"
   /\ NodeParent(before.current, before.cursor) = 0
   /\ before.current # root) =>
    LET cov == layers[before.current].range
    IN /\ ret
       /\ current = layers[before.current].parent
       /\ current # before.current
       /\ IF \E k \in 1..Len(Tree(current)) : NodeContains(current, k, cov[1], cov[2])
          THEN Smallest(current, cursor, cov[1], cov[2])
          ELSE cursor = root_node(current)

\* C20: goto_parent returns false exactly when the current layer is the root
\* layer and the current node has no tree parent, and then leaves the cursor
\* where it was; in every other state it returns true.
C20_ParentFailsOnlyAtTop ==
  call = "goto_parent" =>
    /\ ret = FALSE <=> (before.current = root /\ NodeParent(before.current, before.cursor) = 0)
    /\ ret = FALSE => (current = before.current /\ cursor = before.cursor)

\* C20 witness: goto_parent refused at the top of a forest with embedded
\* layers.
C20_Witness ==
  /\ call = "goto_parent"
  /\ ret = FALSE
  /\ Len(layers) > 1
  /\ current = root
  /\ cursor = root_node(root)

\* C21: goto_first_child on a node whose span is a key of the injection
\* index makes the layer of that entry current and moves to its root node,
\* also when the node has ordinary children.
C21_InjectionFirst ==
  (/\ call = "goto_first_child"
   /\ injection_get(byte_range(before.current, before.cursor)) # 0) =>
    /\ ret
    /\ current = injection_get(byte_range(before.current, before.cursor))
    /\ cursor = root_node(current)

\* C21 witness: the node had ordinary children and the cursor left its
\* layer for the injected one.
C21_Witness ==
  /\ call = "goto_first_child"
  /\ ret
  /\ injection_get(byte_range(before.current, before.cursor)) # 0
  /\ child0(before.current, before.cursor) # 0
  /\ current # before.current
  /\ cursor = root_node(current)

\* C22: goto_first_child on a node whose span is no key of the injection
\* index moves to the node's first child in the same layer if there is one;
\* it returns false exactly when there is neither an entry nor a child, and
\* then leaves layer and node as they were.
C22_ChildWithoutInjection ==
  call = "goto_first_child" =>
    LET l == before.current
        n == before.cursor
        entry == injection_get(byte_range(l, n))
    IN /\ (entry = 0 /\ child0(l, n) # 0) =>
            (ret /\ current = l /\ cursor = child0(l, n))
       /\ ret = FALSE <=> (entry = 0 /\ child0(l, n) = 0)
       /\ ret = FALSE => (current = l /\ cursor = n)

\* C22 witness: a descent to the first child inside an embedded layer.
C22_Witness ==
  /\ call = "goto_first_child"
  /\ ret
  /\ injection_get(byte_range(before.current, before.cursor)) = 0
  /\ before.current # root
  /\ current = before.current
  /\ cursor = child0(before.current, before.cursor)

\* C23: goto_next_sibling and goto_prev_sibling keep the current layer: on
\* success the cursor is on the adjacent sibling of the same tree, on failure
\* on the node it was on.
C23_SiblingsKeepLayer ==
  call \in {"goto_next_sibling", "goto_prev_sibling"} =>
    LET l == before.current
        n == before.cursor
        adjacent == IF call = "goto_next_sibling" THEN next_sibling(l, n)
                    ELSE prev_sibling(l, n)
    IN /\ current = l
       /\ ret <=> adjacent # 0
       /\ ret => cursor = adjacent
       /\ ~ret => cursor = n

\* C23 witness: a step onto a sibling that hosts an injection, from a node
\* next to it.
C23_Witness ==
  /\ call = "goto_next_sibling"
  /\ ret
  /\ current = before.current
  /\ cursor = next_sibling(before.current, before.cursor)
  /\ injection_get(byte_range(current, cursor)) # 0

\* C24: the current node is a node of the tree of the current layer: the
\* layer whose tree the last operation took the node from is the current
\* layer.
Owner ==
  LET l == before.current
      n == before.cursor
  IN CASE call = "new" -> root
       [] call = "reset_to_byte_range" -> ContainerFrom(1, root, args[1], args[2])
       [] call = "goto_parent" ->
            IF NodeParent(l, n) # 0 \/ l = root THEN l ELSE layers[l].parent
       [] call = "goto_first_child" ->
            IF injection_get(byte_range(l, n)) # 0 THEN injection_get(byte_range(l, n))
            ELSE l
       [] call \in {"goto_next_sibling", "goto_prev_sibling"} -> l

C24_NodeOfCurrentTree ==
  /\ current = Owner
  /\ cursor \in 1..Len(Tree(Owner))

\* C24 witness: the node was taken from the tree of an injected layer
\* entered from its host.
C24_Witness ==
  /\ call = "goto_first_child"
  /\ ret
  /\ Owner # before.current
  /\ layers[Owner].parent = before.current
  /\ current = Owner

\* C28: whenever goto_first_child returns true the position (layer, node)
\* differs from the one before the call.
C28_FirstChildMoves ==
  (call = "goto_first_child" /\ ret) =>
    [current |-> current, cursor |-> cursor] # before

\* C29: whenever goto_first_child changes the current layer from L to C, C
\* is a direct child of L: its parent link is L and its depth is L's depth
\* plus one.
C29_EntersDirectChild ==
  (call = "goto_first_child" /\ current # before.current) =>
    /\ layers[current].parent = before.current
    /\ layers[current].depth = layers[before.current].depth + 1

\* C30: from a node N of layer L whose span is the injection index key of a
\* child layer of L, goto_first_child followed by goto_parent puts the cursor
\* back in layer L on a node of N's span.
C30_CrossingRoundTrip ==
  [][(/\ call = "goto_first_child"
      /\ ret
      /\ injection_get(byte_range(before.current, before.cursor)) # 0
      /\ layers[injection_get(byte_range(before.current, before.cursor))].parent
           = before.current
      /\ call' = "goto_parent") =>
       /\ current' = before.current
       /\ byte_range(current', cursor') = byte_range(before.current, before.cursor)]_vars

-----------------------------------------------------------------------------
(* The explorer: the history of roots.                                     *)

\* C25: an operation that changes the root leaves the tree it replaced on
\* top of the history, above the trees that were there, so that
\* go_to_previous_root brings back that tree as it was (cursor and opened
\* folders); go_to_previous_root displays the top of the history and takes
\* it off, walking back last in first out, and with an empty history it
\* changes nothing.
C25_PreviousRootRestored ==
  [][/\ current_root' # current_root =>
          /\ history' # << >>
          /\ history'[Len(history')] = tree
          /\ SubSeq(history', 1, Len(history') - 1) = history
     /\ xop' = "go_to_previous_root" =>
          IF history = << >>
          THEN /\ tree' = tree
               /\ history' = history
               /\ current_root' = current_root
               /\ fs' = fs
          ELSE /\ tree' = history[Len(history)]
               /\ history' = SubSeq(history, 1, Len(history) - 1)]_vars

-----------------------------------------------------------------------------
(* The explorer: reveal_file, new_file, new_folder.                        *)

\* The item at path p is the focused item of tree view t: the cursor is on
\* it and it is shown.
Focused(t, p) == t.selected = p /\ p \in Visible(t)

\* The folders between the root of t and p, the root included, p excluded.
Ancestors(t, p) == {SubSeq(p, 1, k) : k \in Len(t.root)..(Len(p) - 1)}

\* C26: reveal_file(path) with path under the current root leaves the root
\* as it is, focuses the item at path and opens its ancestor folders; with
\* path outside the current root the root becomes the parent directory of
\* path, the old tree is pushed to the history, and the item at path is
\* focused.
C26_RevealFile ==
  [][xop' = "reveal_file" =>
       LET path == xarg'
       IN  IF starts_with(path, current_root)
           THEN /\ current_root' = current_root
                /\ tree'.root = tree.root
                /\ history' = history
                /\ Focused(tree', path)
                /\ Ancestors(tree', path) \subseteq tree'.opened
           ELSE /\ current_root' = Parent(path)
                /\ tree'.root = Parent(path)
                /\ history' # << >>
                /\ history'[Len(history')] = tree
                /\ Focused(tree', path)]_vars

\* The nearest folder of the focused item, as the claim has it.
NearestOfFocused ==
  IF tree.selected = tree.root \/ tree.selected \in fs.dirs
  THEN tree.selected
  ELSE Parent(tree.selected)

\* Nothing stands in the way of creating a file (a folder) at path p.
Creatable(kind, p) ==
  /\ p # << >>
  /\ create_dir_all_ok(fs, Parent(p))
  /\ p \notin fs.files
  /\ kind = "new_file" => p \notin fs.dirs

\* A name that leads nowhere but down: no ".." among its components.
Downward(name) == \A i \in 1..Len(name) : name[i] # ".."

\* C27: new_file and new_folder create the entry named at the prompt below
\* the nearest folder of the focused item (the item itself when it is a
\* folder or the root, opened or not, else the parent of the focused file),
\* with the directories on the way to it, and focus the new entry.
C27_CreateUnderNearestFolder ==
  [][(xop' \in {"new_file", "new_folder"} /\ Downward(xarg')) =>
       LET entry == get_normalized_path(NearestOfFocused \o xarg')
       IN  Creatable(xop', entry) =>
             /\ starts_with(entry, NearestOfFocused)
             /\ entry \in (IF xop' = "new_file" THEN fs'.files ELSE fs'.dirs)
             /\ \A k \in 0..(Len(entry) - 1) : SubSeq(entry, 1, k) \in fs'.dirs
             /\ Focused(tree', entry)]_vars

-----------------------------------------------------------------------------
(* expand_selection to its end.                                            *)

\* C31: from any range, expand_selection applied again and again reaches the
\* span of the root layer's root node after finitely many applications and
\* returns that span ever after: sooner or later every range of the
\* selection has that span for good.
C31_ExpandReachesRootSpan ==
  \A i \in 1..MaxRanges :
    <>[](i <= Len(selection) => OutSpan(i) = RootSpan(root))

-----------------------------------------------------------------------------
(* The explorer: the recorded root and the size of the history.            *)

\* C32: in every reachable state state.current_root is the root path of the
\* displayed tree, so that change_root(p) returns early only when the tree
\* displayed is the tree of p.
C32_CurrentRootIsDisplayedRoot == current_root = tree.root

\* C33: the history never holds more than MAX_HISTORY_SIZE trees, and a
\* change_root to the recorded root (change_root_to_current_folder with the
\* cursor on the item of that path) pushes nothing and leaves the displayed
\* tree as it is.
C33_HistoryBounded ==
  /\ [](Len(history) <= MAX_HISTORY_SIZE)
  /\ [][(xop' = "change_root_to_current_folder" /\ tree.selected = current_root)
          => (history' = history /\ tree' = tree)]_vars

\* C33 witness: a full history after one more root change.
C33_Witness ==
  /\ Len(history) = MAX_HISTORY_SIZE
  /\ xop = "change_root_parent_folder"
  /\ xok
  /\ tree = new_tree_view(fs, current_root)

-----------------------------------------------------------------------------
(* The explorer as a component: focus and size.                            *)

\* C34: a focused explorer is open in every reachable state, and a key
\* event that arrives while the explorer is not focused and the tree view
\* is not in its prompt is ignored and changes nothing of the explorer.
C34_FocusedIsOpen ==
  /\ [](state_focus => state_open)
  /\ [][(event' \in Keys /\ ~state_focus /\ ~prompting)
          => (result' = "Ignored" /\ Whole' = Whole)]_vars

\* C34 witness: a key was ignored by an explorer that is open and not
\* focused.
C34_Witness ==
  /\ event \in Keys
  /\ result = "Ignored"
  /\ ~state_focus
  /\ state_open
  /\ ~prompting

\* C35: increase_size never makes column_width smaller than it was, whatever
\* the column width and the recorded area width (0 before the first
\* embedded render); decrease_size lowers it by one and stops at 0.
C35_SizeSteps ==
  [][/\ did' = "increase_size" => column_width' >= column_width
     /\ did' = "decrease_size" =>
          column_width' = (IF column_width = 0 THEN 0 ELSE column_width - 1)]_vars

-----------------------------------------------------------------------------
(* The picker of completions and the document.                             *)

\* C36: the caller having applied the transaction returned by new, whenever
\* the callbacks of the events so far have run the document is the original
\* with exactly transactions[cur] applied, through any sequence of Ctrl-n and
\* Ctrl-m and also once Enter has taken the picker away; once the callback
\* of Esc has run the document is the original.
C36_DocumentFollowsCur ==
  callback = NoCallback =>
    IF ~in_compositor /\ key = "Esc"
    THEN doc = original
    ELSE doc = apply(transactions[cur], original)

\* C36 witness: Ctrl-m went back from the second completion to the first,
\* its callback has run, and the two completions and the original are three
\* different texts.
C36_Witness ==
  /\ key = "ctrl-m"
  /\ ran = "undo_then_apply"
  /\ cur = 1
  /\ Len(transactions) >= 2
  /\ doc = apply(transactions[1], original)
  /\ doc # original
  /\ doc # apply(transactions[2], original)
  /\ original # apply(transactions[2], original)

====
